---- MODULE Spec2Model ----
(***************************************************************************)
(* Memory Scramble: the Board ADT of src/board.ts (flip protocol, per-cell *)
(* FIFO wait queues, watchers) and the glue of src/commands.ts.            *)
(*                                                                         *)
(* A call that runs to completion without an await is one action.  A       *)
(* flipFirstAsync that awaits is split at the await: the part up to the    *)
(* enqueue is one action, and every resumption (one pass of the while      *)
(* loop after the Deferred was resolved) is another.  Resolved Deferreds   *)
(* resume in the order they were resolved (the microtask queue), modelled  *)
(* by resumeQ.                                                             *)
(***************************************************************************)
EXTENDS Integers, Sequences, FiniteSets, TLC

\* ------------------------------------------------------------------ board
\* The board file: one row of labels per board row (1x3, "A A B").
Cards == << <<"A", "A", "B">> >>

Rows == Len(Cards)
Cols == Len(Cards[1])

Players == {"alice", "bob", "charlie"}

\* The players that call the Board in Spec.
Callers == {"alice", "bob"}

\* controller === null
NoPlayer == "null"

\* Positions are <<r, c>>, 0-based as in the source.
Pos == (0 .. Rows - 1) \X (0 .. Cols - 1)

\* Map.get(...) === undefined for firstSelection; also the filler of an absent outcome.
NoPos == <<-1, -1>>

\* Positions a caller may pass: every cell, and one column past the end of the first row.
OutOfBoundsPos == {<<0, Cols>>}

InputPos == Pos \cup OutOfBoundsPos

\* totalMoves of the simulation: the flip commands each player issues.
MaxMoves == 3

\* Spec: the most flipFirstAsync requests suspended at once (queued, or resolved and not yet resumed).
MaxSuspended == 1

\* SpecWatch: the most watch calls not yet returned (pending, or resolved and not yet resumed).
MaxWatchers == 3

\* SpecMap: the most map / mapCards calls at their await at once.
MaxMaps == 1

\* SpecTwoMaps: the most map / mapCards calls at their await at once.
MaxConcurrentMaps == 2

\* The transformers passed to map: the identity, one that renames the card A and
\* leaves the others, and one that renames the card A and returns a label with
\* whitespace for every other card.
Transforms == {"same", "rename", "bad"}

transform(f, card) ==
  CASE f = "same" -> card
    [] f = "rename" -> (IF card = "A" THEN "C" ELSE card)
    [] f = "bad" -> (IF card = "A" THEN "C" ELSE "A B")
    [] f = "merge" -> "B"

\* Transformers for overlapping maps: the identity and one that gives every card
\* the same valid label.
MergingTransforms == {"same", "merge"}

\* Board.map and its variant Board.mapCards.
MapVariants == {"map", "mapCards"}

\* grid[r][c] === null
EmptySlot == [occ |-> FALSE, label |-> "", faceUp |-> FALSE, controller |-> NoPlayer]

Slot(label, faceUp, controller) ==
  [occ |-> TRUE, label |-> label, faceUp |-> faceUp, controller |-> controller]

\* pending.get(p) ?? null
NoOutcome == [kind |-> "null", first |-> NoPos, second |-> NoPos]

Outcome(kind, first, second) == [kind |-> kind, first |-> first, second |-> second]

VARIABLES
  grid,            \* [Pos -> slot]                     Board.grid
  firstSelection,  \* [Players -> Pos \cup {NoPos}]     Board.firstSelection
  pending,         \* [Players -> outcome]              Board.pending
  waitQueues,      \* [Pos -> Seq(Players)]             Board.waitQueues (one Deferred per entry)
  resumeQ,         \* Seq([by, pos]): resolved Deferreds whose flipFirstAsync has not resumed yet
  watchers,        \* Seq(Players)                      Board.watchers
  maps,            \* Seq([variant, f, byValue]): map / mapCards calls at their await
  moves            \* [Players -> Nat]: playerMoves of the simulation, iterations left

vars == <<grid, firstSelection, pending, waitQueues, resumeQ, watchers, maps, moves>>

\* The mutable fields of the Board as one value, so that a method is a function on it.
Board == [grid |-> grid, firstSelection |-> firstSelection, pending |-> pending,
          waitQueues |-> waitQueues, resumeQ |-> resumeQ, watchers |-> watchers,
          maps |-> maps]

\* ---------------------------------------------------------------- helpers
within(p) == p[1] >= 0 /\ p[1] < Rows /\ p[2] >= 0 /\ p[2] < Cols

\* A getCell that finds no card while a map call is in progress.
getCellLocked(b, p) == IF within(p) /\ b.maps = <<>> THEN b.grid[p] ELSE EmptySlot

\* Only ever called with an in-bounds position (slotAt and flipSecond test within first;
\* pending and firstSelection hold in-bounds positions only).
getCell(b, p) == IF within(p) THEN b.grid[p] ELSE EmptySlot

setCell(b, p, val) == [b EXCEPT !.grid[p] = val]

\* Number of flipFirstAsync requests that are suspended at the await.
RECURSIVE SumLen(_, _)
SumLen(q, S) ==
  IF S = {} THEN 0
  ELSE LET p == CHOOSE x \in S : TRUE IN Len(q[p]) + SumLen(q, S \ {p})

Suspended(b) ==
  SumLen(b.waitQueues, Pos) + Len(SelectSeq(b.resumeQ, LAMBDA w : w.pos # NoPos))

\* enqueueAndWait with q.unshift(d) for q.push(d): the new Deferred goes first.
enqueueAtHead(b, p, by) == [b EXCEPT !.waitQueues[p] = <<by>> \o @]

\* Append a new Deferred to the queue of cell p; the caller then awaits it.
enqueueAndWait(b, p, by) == [b EXCEPT !.waitQueues[p] = Append(@, by)]

\* wakeNext without d.resolve(): the head leaves the queue and is never resumed.
wakeNextUnresolved(b, p) ==
  IF Len(b.waitQueues[p]) > 0
  THEN [b EXCEPT !.waitQueues[p] = Tail(@)]
  ELSE b

\* wakeNext with q.pop() for q.shift(): resolves the waiter that enqueued last.
wakeNextLifo(b, p) ==
  LET q == b.waitQueues[p] IN
  IF Len(q) > 0
  THEN [b EXCEPT !.waitQueues[p] = SubSeq(q, 1, Len(q) - 1),
                 !.resumeQ = Append(@, [by |-> q[Len(q)], pos |-> p])]
  ELSE b

\* Resolve the Deferred at the head of the queue of p, if any. Its flipFirstAsync
\* resumes later, after the Deferreds resolved before it.
wakeNext(b, p) ==
  IF Len(b.waitQueues[p]) > 0
  THEN [b EXCEPT !.waitQueues[p] = Tail(@),
                 !.resumeQ = Append(@, [by |-> Head(b.waitQueues[p]), pos |-> p])]
  ELSE b

\* The resolved Deferred of a watch(p): its continuation has no position.
WatchEntry(p) == [by |-> p, pos |-> NoPos]

\* notifyChange as a hand-off: resolves the oldest pending watch only.
notifyChangeFirstOnly(b) ==
  IF b.watchers = <<>> THEN b
  ELSE [b EXCEPT !.resumeQ = Append(@, WatchEntry(Head(b.watchers))),
                 !.watchers = Tail(@)]

\* Resolve every pending watch, in order, and empty the list.
notifyChange(b) ==
  [b EXCEPT !.resumeQ = @ \o [i \in 1 .. Len(b.watchers) |-> WatchEntry(b.watchers[i])],
            !.watchers = <<>>]

\* The representation invariant checkRep() tests (labels are checked by LabelOk).
LabelOk(l) == l # ""

checkRep(b) ==
  /\ \A p \in Pos : b.grid[p].occ =>
       /\ LabelOk(b.grid[p].label)
       /\ (~b.grid[p].faceUp => b.grid[p].controller = NoPlayer)
  /\ \A pl \in Players : b.pending[pl].kind # "null" =>
       within(b.pending[pl].first) /\ within(b.pending[pl].second)

hasFirstSelection(b, p) == b.firstSelection[p] # NoPos

\* The line snapshot prints for one cell.
cellLine(cell, forPlayer) ==
  IF ~cell.occ THEN <<"none">>
  ELSE IF ~cell.faceUp THEN <<"down">>
  ELSE IF cell.controller = forPlayer THEN <<"my", cell.label>>
  ELSE <<"up", cell.label>>

\* A rendering that walks the grid column by column.
renderByColumn(rows, cols, cells, forPlayer) ==
  <<(<<rows, "x", cols>>)>> \o
  [k \in 1 .. rows * cols |->
     cellLine(cells[<<(k - 1) % rows, (k - 1) \div rows>>], forPlayer)]

\* The body of snapshot on a grid of rows x cols cells: the lines of the text,
\* the size first, then one line per cell, row by row.
render(rows, cols, cells, forPlayer) ==
  <<(<<rows, "x", cols>>)>> \o
  [k \in 1 .. rows * cols |->
     cellLine(cells[<<(k - 1) \div cols, (k - 1) % cols>>], forPlayer)]

\* snapshot(forPlayer) on the board of the machine.
snapshot(b, forPlayer) == render(Rows, Cols, [q \in Pos |-> getCell(b, q)], forPlayer)

\* watch(forPlayer) up to its await: a new Deferred at the end of watchers.
watch(b, forPlayer) == [b EXCEPT !.watchers = Append(@, forPlayer)]

\* ------------------------------------------------------- rules 3-A / 3-B
\* settleFlipDown without the test cell.controller === null.
settleFlipDownControlled(b, q) ==
  LET cell == getCell(b, q) IN
  IF cell.occ /\ cell.faceUp
  THEN [b EXCEPT !.grid[q].faceUp = FALSE]
  ELSE b

\* One iteration of the loop of the mismatched branch.
settleFlipDown(b, q) ==
  LET cell == getCell(b, q) IN
  IF cell.occ /\ cell.faceUp /\ cell.controller = NoPlayer
  THEN [b EXCEPT !.grid[q].faceUp = FALSE]
  ELSE b

\* settleMatched that removes the first card of the pair only.
settleMatchedFirstOnly(b, a, c) ==
  notifyChange(wakeNext(wakeNext(setCell(b, a, EmptySlot), a), c))

settleMatched(b, a, c) ==
  notifyChange(wakeNext(wakeNext(setCell(setCell(b, a, EmptySlot), c, EmptySlot), a), c))

\* settleMismatched whose loop visits the first card only.
settleMismatchedFirstOnly(b, first, second) ==
  LET b2 == settleFlipDown(b, first)
      flipped == b2.grid # b.grid
  IN IF flipped THEN notifyChange(b2) ELSE b2

settleMismatched(b, first, second) ==
  LET b2 == settleFlipDown(settleFlipDown(b, first), second)
      flipped == b2.grid # b.grid
  IN IF flipped THEN notifyChange(b2) ELSE b2

settleBeforeNewFirstMove(b, p) ==
  LET outcome == b.pending[p] IN
  IF outcome.kind = "null" THEN b
  ELSE LET b1 == IF outcome.kind = "matched"
                 THEN settleMatched(b, outcome.first, outcome.second)
                 ELSE settleMismatched(b, outcome.first, outcome.second)
       IN [b1 EXCEPT !.pending[p] = NoOutcome]

\* ------------------------------------------------------------ first card
\* A method returns the board it leaves behind and how the call ended.
Ret(b, res) == [b |-> b, res |-> res]

\* Rule 1-B: turn the card up and take it.
takeDown(b, pos, by) ==
  [notifyChange([b EXCEPT !.grid[pos].faceUp = TRUE, !.grid[pos].controller = by])
     EXCEPT !.firstSelection[by] = pos]

\* Rule 1-C that takes control without recording the first selection.
takeUpUnrecorded(b, pos, by) ==
  [b EXCEPT !.grid[pos].controller = by]

\* Rule 1-C that notifies the watchers as rule 1-B does.
takeUpNotifies(b, pos, by) ==
  [notifyChange([b EXCEPT !.grid[pos].controller = by]) EXCEPT !.firstSelection[by] = pos]

\* Rule 1-C: take a face-up card nobody else controls.
takeUp(b, pos, by) ==
  [b EXCEPT !.grid[pos].controller = by, !.firstSelection[by] = pos]

\* A look that first settles the player's previous move, as a first flip does.
lookSettles(b, playerId) ==
  LET b1 == settleBeforeNewFirstMove(b, playerId) IN Ret(b1, snapshot(b1, playerId))

\* commands.look: the snapshot for the player, the board as it was.
look(b, playerId) == Ret(b, snapshot(b, playerId))

flipFirst(b0, pos, by) ==
  LET b == settleBeforeNewFirstMove(b0, by) IN
  IF ~within(pos) THEN Ret(b, "OOB")
  ELSE LET slot == getCell(b, pos) IN
    IF ~slot.occ THEN Ret(b, "1-A")
    ELSE IF ~slot.faceUp THEN Ret(takeDown(b, pos, by), "ok")
    ELSE IF slot.controller = NoPlayer \/ slot.controller = by
         THEN Ret(takeUp(b, pos, by), "ok")
    ELSE Ret(b, "1-D")

\* One pass of the while loop of flipFirstAsync.
flipFirstAsyncLoop(b, pos, by) ==
  IF ~within(pos) THEN Ret(b, "OOB")
  ELSE LET slot == getCell(b, pos) IN
    IF ~slot.occ THEN Ret(b, "1-A")
    ELSE IF ~slot.faceUp THEN Ret(takeDown(b, pos, by), "ok")
    ELSE IF slot.controller = NoPlayer \/ slot.controller = by
         THEN Ret(takeUp(b, pos, by), "ok")
    ELSE Ret(enqueueAndWait(b, pos, by), "wait")

flipFirstAsync(b, pos, by) ==
  flipFirstAsyncLoop(settleBeforeNewFirstMove(b, by), pos, by)

\* relinquishFirstOnly that releases the card without waking its first waiter.
relinquishFirstOnlyNoWake(b, by) ==
  LET first == b.firstSelection[by] IN
  IF first = NoPos THEN b
  ELSE LET b1 == IF getCell(b, first).occ
                 THEN [b EXCEPT !.grid[first].controller = NoPlayer]
                 ELSE b
       IN [b1 EXCEPT !.firstSelection[by] = NoPos]

\* relinquishFirstOnly that notifies the watchers of the release.
relinquishFirstOnlyNotifies(b, by) ==
  LET first == b.firstSelection[by] IN
  IF first = NoPos THEN b
  ELSE LET b1 == IF getCell(b, first).occ
                 THEN wakeNext([b EXCEPT !.grid[first].controller = NoPlayer], first)
                 ELSE b
       IN notifyChange([b1 EXCEPT !.firstSelection[by] = NoPos])

\* ----------------------------------------------------------- second card
\* relinquishFirstOnly without this.firstSelection.delete(by).
relinquishKeepsSelection(b, by) ==
  LET first == b.firstSelection[by] IN
  IF first = NoPos THEN b
  ELSE IF getCell(b, first).occ
       THEN wakeNext([b EXCEPT !.grid[first].controller = NoPlayer], first)
       ELSE b

relinquishFirstOnly(b, by) ==
  LET first == b.firstSelection[by] IN
  IF first = NoPos THEN b
  ELSE LET b1 == IF getCell(b, first).occ
                 THEN wakeNext([b EXCEPT !.grid[first].controller = NoPlayer], first)
                 ELSE b
       IN [b1 EXCEPT !.firstSelection[by] = NoPos]

\* Rule 2-D.
secondMatched(b, first, pos, by) ==
  [b EXCEPT !.grid[first].controller = by, !.grid[pos].controller = by,
            !.pending[by] = Outcome("matched", first, pos)]

\* secondMismatched that wakes a waiter of the first card only.
secondMismatchedWakesFirstOnly(b, first, pos, by) ==
  [wakeNext([b EXCEPT !.grid[first].controller = NoPlayer,
                      !.grid[pos].controller = NoPlayer], first)
     EXCEPT !.pending[by] = Outcome("mismatched", first, pos)]

\* Rule 2-E.
secondMismatched(b, first, pos, by) ==
  [wakeNext(wakeNext([b EXCEPT !.grid[first].controller = NoPlayer,
                               !.grid[pos].controller = NoPlayer], first), pos)
     EXCEPT !.pending[by] = Outcome("mismatched", first, pos)]

\* flipSecond that runs the caller's cleanup before it fails with NoFirst.
flipSecondSettles(b, pos, by) ==
  LET first == b.firstSelection[by] IN
  IF first = NoPos THEN Ret(settleBeforeNewFirstMove(b, by), "NoFirst")
  ELSE LET s2 == IF within(pos) THEN getCell(b, pos) ELSE EmptySlot IN
    IF ~s2.occ THEN Ret(relinquishFirstOnly(b, by), "2-A")
    ELSE IF s2.faceUp /\ s2.controller # NoPlayer
         THEN Ret(relinquishFirstOnly(b, by), "2-B")
    ELSE LET turnedUp == ~s2.faceUp
             b1 == IF turnedUp THEN [b EXCEPT !.grid[pos].faceUp = TRUE] ELSE b
         IN IF ~getCell(b1, first).occ THEN Ret(b1, "Internal")
            ELSE LET matched == b1.grid[first].label = b1.grid[pos].label
                     b2 == IF matched THEN secondMatched(b1, first, pos, by)
                                      ELSE secondMismatched(b1, first, pos, by)
                     b3 == IF turnedUp THEN notifyChange(b2) ELSE b2
                 IN Ret([b3 EXCEPT !.firstSelection[by] = NoPos], "ok")

\* flipSecond that waits on a controlled second card as flipFirstAsync does.
flipSecondWaits(b, pos, by) ==
  LET first == b.firstSelection[by] IN
  IF first = NoPos THEN Ret(b, "NoFirst")
  ELSE LET s2 == IF within(pos) THEN getCell(b, pos) ELSE EmptySlot IN
    IF ~s2.occ THEN Ret(relinquishFirstOnly(b, by), "2-A")
    ELSE IF s2.faceUp /\ s2.controller # NoPlayer
         THEN Ret(enqueueAndWait(b, pos, by), "wait")
    ELSE LET turnedUp == ~s2.faceUp
             b1 == IF turnedUp THEN [b EXCEPT !.grid[pos].faceUp = TRUE] ELSE b
         IN IF ~getCell(b1, first).occ THEN Ret(b1, "Internal")
            ELSE LET matched == b1.grid[first].label = b1.grid[pos].label
                     b2 == IF matched THEN secondMatched(b1, first, pos, by)
                                      ELSE secondMismatched(b1, first, pos, by)
                     b3 == IF turnedUp THEN notifyChange(b2) ELSE b2
                 IN Ret([b3 EXCEPT !.firstSelection[by] = NoPos], "ok")

flipSecond(b, pos, by) ==
  LET first == b.firstSelection[by] IN
  IF first = NoPos THEN Ret(b, "NoFirst")
  ELSE LET s2 == IF within(pos) THEN getCell(b, pos) ELSE EmptySlot IN
    IF ~s2.occ THEN Ret(relinquishFirstOnly(b, by), "2-A")
    ELSE IF s2.faceUp /\ s2.controller # NoPlayer
         THEN Ret(relinquishFirstOnly(b, by), "2-B")
    ELSE LET turnedUp == ~s2.faceUp
             b1 == IF turnedUp THEN [b EXCEPT !.grid[pos].faceUp = TRUE] ELSE b   \* 2-C
         IN IF ~getCell(b1, first).occ THEN Ret(b1, "Internal")
            ELSE LET matched == b1.grid[first].label = b1.grid[pos].label
                     b2 == IF matched THEN secondMatched(b1, first, pos, by)
                                      ELSE secondMismatched(b1, first, pos, by)
                     b3 == IF turnedUp THEN notifyChange(b2) ELSE b2
                 IN Ret([b3 EXCEPT !.firstSelection[by] = NoPos], "ok")

flipSecondAsync(b, pos, by) == flipSecond(b, pos, by)

\* ------------------------------------------------------------ map, mapCards
\* The check of a transformed card: not empty, no whitespace.
validCard(out) == out \notin {"", " ", "A B"}

\* byValue: for each label on the board, the positions that carry it.
ByValue(b) ==
  LET occupied == {q \in Pos : b.grid[q].occ} IN
  [l \in {b.grid[q].label : q \in occupied} |->
     {q \in occupied : b.grid[q].label = l}]

\* [...byValue.entries()]: the distinct values in the order in which the scan,
\* row by row, met them first. transform is called on each of them in turn.
Index(q) == q[1] * Cols + q[2]

FirstOf(S) == CHOOSE q \in S : \A r \in S : Index(q) <= Index(r)

RECURSIVE entriesFrom(_, _)
entriesFrom(byValue, left) ==
  IF left = {} THEN <<>>
  ELSE LET l == CHOOSE x \in left :
                  \A y \in left : Index(FirstOf(byValue[x])) <= Index(FirstOf(byValue[y]))
       IN <<l>> \o entriesFrom(byValue, left \ {l})

\* A list with one entry for every recorded position instead of one per value.
RECURSIVE perCellFrom(_, _)
perCellFrom(byValue, left) ==
  IF left = {} THEN <<>>
  ELSE LET q == FirstOf(left)
       IN <<CHOOSE l \in DOMAIN byValue : q \in byValue[l]>> \o perCellFrom(byValue, left \ {q})

entriesPerCell(byValue) == perCellFrom(byValue, UNION {byValue[l] : l \in DOMAIN byValue})

entries(byValue) == entriesFrom(byValue, DOMAIN byValue)

\* map / mapCards up to the await: the positions by value are read and the
\* transformer is called on every distinct value.
mapStart(b, variant, f) ==
  [b EXCEPT !.maps = Append(@, [variant |-> variant, f |-> f, byValue |-> ByValue(b),
                                calls |-> entries(ByValue(b))])]

RemoveAt(q, i) == SubSeq(q, 1, i - 1) \o SubSeq(q, i + 1, Len(q))

\* A commit loop of Board.map that stops after the first position of each value.
mapCommitFirstOnly(b, byValue, mapping) ==
  [b EXCEPT !.grid = [q \in Pos |->
     IF b.grid[q].occ /\ \E orig \in DOMAIN byValue : q = FirstOf(byValue[orig])
     THEN LET orig == CHOOSE o \in DOMAIN byValue : q \in byValue[o]
          IN [b.grid[q] EXCEPT !.label = mapping[orig]]
     ELSE b.grid[q]]]

\* A commit loop of Board.map that also takes the rewritten cards from their
\* controllers.
mapCommitReleases(b, byValue, mapping) ==
  [b EXCEPT !.grid = [q \in Pos |->
     IF b.grid[q].occ /\ \E orig \in DOMAIN byValue : q \in byValue[orig]
     THEN LET orig == CHOOSE o \in DOMAIN byValue : q \in byValue[o]
          IN [b.grid[q] EXCEPT !.label = mapping[orig], !.controller = NoPlayer]
     ELSE b.grid[q]]]

\* A commit loop of Board.map that leaves the face-up cards as they are.
mapCommitSkipsFaceUp(b, byValue, mapping) ==
  [b EXCEPT !.grid = [q \in Pos |->
     IF b.grid[q].occ /\ ~b.grid[q].faceUp /\ \E orig \in DOMAIN byValue : q \in byValue[orig]
     THEN LET orig == CHOOSE o \in DOMAIN byValue : q \in byValue[o]
          IN [b.grid[q] EXCEPT !.label = mapping[orig]]
     ELSE b.grid[q]]]

\* A commit loop of Board.map that puts a face-down card with the new value on
\* a recorded position whose card was removed.
mapCommitRecreates(b, byValue, mapping) ==
  [b EXCEPT !.grid = [q \in Pos |->
     IF \E orig \in DOMAIN byValue : q \in byValue[orig]
     THEN LET orig == CHOOSE o \in DOMAIN byValue : q \in byValue[o]
          IN IF b.grid[q].occ THEN [b.grid[q] EXCEPT !.label = mapping[orig]]
             ELSE Slot(mapping[orig], FALSE, NoPlayer)
     ELSE b.grid[q]]]

\* The commit loop of Board.map: every recorded position that still holds a card
\* gets the new value of its original value. The legacy hook _notify is never set.
mapCommit(b, byValue, mapping) ==
  [b EXCEPT !.grid = [q \in Pos |->
     IF b.grid[q].occ /\ \E orig \in DOMAIN byValue : q \in byValue[orig]
     THEN LET orig == CHOOSE o \in DOMAIN byValue : q \in byValue[o]
          IN [b.grid[q] EXCEPT !.label = mapping[orig]]
     ELSE b.grid[q]]]

\* The commit loop of Board.mapCards: values mapped to themselves are skipped, and
\* watchers are notified when a label changed.
mapCardsCommit(b, byValue, mapping) ==
  LET b1 == [b EXCEPT !.grid = [q \in Pos |->
        IF b.grid[q].occ /\ \E orig \in DOMAIN byValue :
                              q \in byValue[orig] /\ mapping[orig] # orig
        THEN LET orig == CHOOSE o \in DOMAIN byValue : q \in byValue[o]
             IN [b.grid[q] EXCEPT !.label = mapping[orig]]
        ELSE b.grid[q]]]
      changed == b1.grid # b.grid
  IN IF changed THEN notifyChange(b1) ELSE b1

\* A map that commits the values with a valid result before it fails.
mapFinishCommitsValid(b, i) ==
  LET m == b.maps[i]
      b0 == [b EXCEPT !.maps = RemoveAt(@, i)]
      mapping == [orig \in DOMAIN m.byValue |-> transform(m.f, orig)]
      valid == [orig \in {o \in DOMAIN m.byValue : validCard(mapping[o])} |-> m.byValue[orig]]
  IN IF \E orig \in DOMAIN mapping : ~validCard(mapping[orig])
     THEN Ret(mapCommit(b0, valid, mapping), "invalid transformed card")
     ELSE IF m.variant = "map" THEN Ret(mapCommit(b0, m.byValue, mapping), "ok")
     ELSE Ret(mapCardsCommit(b0, m.byValue, mapping), "ok")

\* map / mapCards after the await of call i: validation, then the commit.
mapFinish(b, i) ==
  LET m == b.maps[i]
      b0 == [b EXCEPT !.maps = RemoveAt(@, i)]
      mapping == [orig \in DOMAIN m.byValue |-> transform(m.f, orig)]
  IN IF \E orig \in DOMAIN mapping : ~validCard(mapping[orig])
     THEN Ret(b0, "invalid transformed card")
     ELSE IF m.variant = "map" THEN Ret(mapCommit(b0, m.byValue, mapping), "ok")
     ELSE Ret(mapCardsCommit(b0, m.byValue, mapping), "ok")

\* ----------------------------------------------------------- the machine
\* A constructor that leaves the first card face up.
InitFirstFaceUp ==
  /\ grid = [p \in Pos |-> Slot(Cards[p[1] + 1][p[2] + 1], p = <<0, 0>>, NoPlayer)]
  /\ firstSelection = [p \in Players |-> NoPos]
  /\ pending = [p \in Players |-> NoOutcome]
  /\ waitQueues = [p \in Pos |-> <<>>]
  /\ resumeQ = <<>>
  /\ watchers = <<>>
  /\ maps = <<>>
  /\ moves = [p \in Players |-> MaxMoves]

Init ==
  /\ grid = [p \in Pos |-> Slot(Cards[p[1] + 1][p[2] + 1], FALSE, NoPlayer)]
  /\ firstSelection = [p \in Players |-> NoPos]
  /\ pending = [p \in Players |-> NoOutcome]
  /\ waitQueues = [p \in Pos |-> <<>>]
  /\ resumeQ = <<>>
  /\ watchers = <<>>
  /\ maps = <<>>
  /\ moves = [p \in Players |-> MaxMoves]

CommitBoard(r) ==
  /\ grid' = r.b.grid
  /\ firstSelection' = r.b.firstSelection
  /\ pending' = r.b.pending
  /\ waitQueues' = r.b.waitQueues
  /\ resumeQ' = r.b.resumeQ
  /\ watchers' = r.b.watchers
  /\ maps' = r.b.maps

\* A call on the Board: the simulation's loop counters are not involved.
Commit(r) == CommitBoard(r) /\ moves' = moves

FlipFirst(by, pos) == Commit(flipFirst(Board, pos, by))

FlipFirstAsync(by, pos) == Commit(flipFirstAsync(Board, pos, by))

\* flipFirstAsync, as long as no more than MaxSuspended requests are suspended.
BoundedFlipFirstAsync(by, pos) ==
  /\ Suspended(flipFirstAsync(Board, pos, by).b) <= MaxSuspended
  /\ FlipFirstAsync(by, pos)

\* Player p has a flipFirstAsync suspended at the await.
IsSuspended(p) ==
  \/ \E q \in Pos : \E i \in 1 .. Len(waitQueues[q]) : waitQueues[q][i] = p
  \/ \E i \in 1 .. Len(resumeQ) : resumeQ[i].by = p

\* The call whose Deferred was resolved first continues: a flipFirstAsync runs its
\* next pass, a watch returns the snapshot of the board as it is now.
Resume ==
  /\ resumeQ # <<>>
  /\ LET w == Head(resumeQ)
         b == [Board EXCEPT !.resumeQ = Tail(@)]
         r == IF w.pos = NoPos THEN Ret(b, snapshot(b, w.by))
              ELSE flipFirstAsyncLoop(b, w.pos, w.by)
     IN Commit(r)

\* flipSecond and its async wrapper run the same code in one step.
FlipSecond(by, pos) == Commit(flipSecondAsync(Board, pos, by))

\* Spec: two callers use the Board directly, on the cells of the board, and a caller
\* may start a call while earlier flipFirstAsync calls of the same player are suspended.
Next ==
  \/ \E by \in Callers, pos \in Pos : FlipFirst(by, pos)
  \/ \E by \in Callers, pos \in Pos : BoundedFlipFirstAsync(by, pos)
  \/ Resume
  \/ \E by \in Callers, pos \in Pos : FlipSecond(by, pos)

Spec == Init /\ [][Next]_vars

\* SpecSeq: three players use the Board directly, with any position, one call at a time:
\* a player whose flipFirstAsync is suspended starts no other call until it has returned.
SeqFlipFirst(by, pos) == ~IsSuspended(by) /\ FlipFirst(by, pos)

SeqFlipFirstAsync(by, pos) == ~IsSuspended(by) /\ FlipFirstAsync(by, pos)

SeqFlipSecond(by, pos) == ~IsSuspended(by) /\ FlipSecond(by, pos)

NextSeq ==
  \/ \E by \in Players, pos \in InputPos : SeqFlipFirst(by, pos)
  \/ \E by \in Players, pos \in InputPos : SeqFlipFirstAsync(by, pos)
  \/ Resume
  \/ \E by \in Players, pos \in InputPos : SeqFlipSecond(by, pos)

SpecSeq == Init /\ [][NextSeq]_vars

\* SpecSim: the simulation. Every player runs playerMoves: MaxMoves times it
\* awaits commands.flip on some cell, which calls flipSecondAsync when the player
\* has a first selection and flipFirstAsync otherwise.
\* flip without the test of hasFirstSelection: every command is a first flip.
flipAlwaysFirst(b, playerId, pos) == flipFirstAsync(b, pos, playerId)

flip(b, playerId, pos) ==
  IF hasFirstSelection(b, playerId) THEN flipSecondAsync(b, pos, playerId)
  ELSE flipFirstAsync(b, pos, playerId)

SimFlip(playerID, pos) ==
  /\ ~IsSuspended(playerID)
  /\ moves[playerID] > 0
  /\ CommitBoard(flip(Board, playerID, pos))
  /\ moves' = [moves EXCEPT ![playerID] = @ - 1]

NextSim ==
  \/ \E playerID \in Players, pos \in Pos : SimFlip(playerID, pos)
  \/ Resume

SpecSim == Init /\ [][NextSim]_vars

\* SpecCommands: the players send flip commands as requests to the server, which
\* does not wait for a player's earlier command to return before it runs the next
\* (as long as no more than MaxSuspended requests are suspended).
CommandFlip(playerId, pos) ==
  /\ Suspended(flip(Board, playerId, pos).b) <= MaxSuspended
  /\ Commit(flip(Board, playerId, pos))

NextCommands ==
  \/ \E playerId \in Players, pos \in Pos : CommandFlip(playerId, pos)
  \/ Resume

SpecCommands == Init /\ [][NextCommands]_vars

\* SpecWatch: two callers flip cards with the methods that never wait, at any
\* position, and call watch; resolved watch calls return one at a time.
Watch(by) == Commit(Ret(watch(Board, by), "pending"))

\* The watch calls that have not returned yet.
Watching(b) ==
  Len(b.watchers) + Cardinality({i \in 1 .. Len(b.resumeQ) : b.resumeQ[i].pos = NoPos})

BoundedWatch(by) == Watching(Board) < MaxWatchers /\ Watch(by)

\* look(playerId): a step that leaves the board as it is.
Look(by) == Commit(look(Board, by))

NextWatch ==
  \/ \E by \in Callers, pos \in InputPos : FlipFirst(by, pos)
  \/ \E by \in Callers, pos \in InputPos : FlipSecond(by, pos)
  \/ \E by \in Callers : BoundedWatch(by)
  \/ Resume
  \/ \E by \in Players : Look(by)

SpecWatch == Init /\ [][NextWatch]_vars

\* SpecMap: as SpecWatch, with the watch calls made by a player who does not
\* flip and who awaits each watch before the next, while map and mapCards calls
\* are in progress.
Spectators == Players \ Callers

\* Player p has a watch call that has not returned.
IsWatching(p) ==
  \/ \E i \in 1 .. Len(watchers) : watchers[i] = p
  \/ \E i \in 1 .. Len(resumeQ) : resumeQ[i] = WatchEntry(p)

SeqWatch(by) == ~IsWatching(by) /\ Watch(by)

MapStart(variant, f) == Commit(Ret(mapStart(Board, variant, f), "pending"))

BoundedMapStart(variant, f) == Len(maps) < MaxMaps /\ MapStart(variant, f)

MapFinish(i) == Commit(mapFinish(Board, i))

NextMap ==
  \/ \E by \in Callers, pos \in InputPos : FlipFirst(by, pos)
  \/ \E by \in Callers, pos \in InputPos : FlipSecond(by, pos)
  \/ \E by \in Spectators : SeqWatch(by)
  \/ Resume
  \/ \E variant \in MapVariants, f \in Transforms : BoundedMapStart(variant, f)
  \/ \E i \in 1 .. Len(maps) : MapFinish(i)
  \/ \E by \in Players : Look(by)

SpecMap == Init /\ [][NextMap]_vars

\* SpecTwoMaps: map and mapCards calls that overlap, while one player flips cards
\* on the board and looks at it.
ConcurrentMapStart(variant, f) == Len(maps) < MaxConcurrentMaps /\ MapStart(variant, f)

Flipper == CHOOSE p \in Callers : TRUE

NextTwoMaps ==
  \/ \E pos \in Pos : FlipFirst(Flipper, pos)
  \/ \E pos \in Pos : FlipSecond(Flipper, pos)
  \/ \E variant \in MapVariants, f \in Transforms : ConcurrentMapStart(variant, f)
  \/ \E i \in 1 .. Len(maps) : MapFinish(i)
  \/ Look(Flipper)

SpecTwoMaps == Init /\ [][NextTwoMaps]_vars

\* SpecPairs: as SpecTwoMaps, with transformers that may give two values the
\* same new label.
NextPairs ==
  \/ \E pos \in Pos : FlipFirst(Flipper, pos)
  \/ \E pos \in Pos : FlipSecond(Flipper, pos)
  \/ \E variant \in MapVariants, f \in MergingTransforms : ConcurrentMapStart(variant, f)
  \/ \E i \in 1 .. Len(maps) : MapFinish(i)
  \/ Look(Flipper)

SpecPairs == Init /\ [][NextPairs]_vars

\* ------------------------------------------------- snapshot on any board
\* A board of two rows and three columns, to tell rows from columns.
SnapRows == 2

SnapCols == 3

SnapPos == (0 .. SnapRows - 1) \X (0 .. SnapCols - 1)

\* The most cards left on that board.
MaxSnapCards == 3

\* What a card on it can be: face down, face up and controlled by a player, or
\* face up and controlled by nobody.
SnapCards ==
  {Slot("A", FALSE, NoPlayer), Slot("A", TRUE, "alice"),
   Slot("B", TRUE, "bob"), Slot("B", TRUE, NoPlayer)}

\* Every such board with at most MaxSnapCards cards left, the other cells being
\* empty, on which no player controls more than two cards.
InitSnapshot ==
  /\ \E S \in {T \in SUBSET SnapPos : Cardinality(T) <= MaxSnapCards} :
       \E h \in [S -> SnapCards] :
         /\ \A p \in Players : Cardinality({q \in S : h[q].controller = p}) <= 2
         /\ grid = [q \in SnapPos |-> IF q \in S THEN h[q] ELSE EmptySlot]
  /\ firstSelection = [p \in Players |-> NoPos]
  /\ pending = [p \in Players |-> NoOutcome]
  /\ waitQueues = [p \in Pos |-> <<>>]
  /\ resumeQ = <<>>
  /\ watchers = <<>>
  /\ maps = <<>>
  /\ moves = [p \in Players |-> MaxMoves]

\* commands.look on that board.
SnapLook(playerId) == Commit(Ret(Board, render(SnapRows, SnapCols, grid, playerId)))

NextSnapshot == \E playerId \in Players : SnapLook(playerId)

SpecSnapshot == InitSnapshot /\ [][NextSnapshot]_vars

\* SpecAsyncWatch: the callers of Spec, overlapping calls included, while a player
\* who does not flip calls watch, one call at a time.
NextAsyncWatch ==
  \/ \E by \in Callers, pos \in Pos : FlipFirst(by, pos)
  \/ \E by \in Callers, pos \in Pos : BoundedFlipFirstAsync(by, pos)
  \/ Resume
  \/ \E by \in Callers, pos \in Pos : FlipSecond(by, pos)
  \/ \E by \in Spectators : SeqWatch(by)

SpecAsyncWatch == Init /\ [][NextAsyncWatch]_vars

TypeOK ==
  /\ \A p \in Pos : grid[p].occ \in BOOLEAN
  /\ \A p \in Players : firstSelection[p] \in Pos \cup {NoPos}
  /\ checkRep(Board)

\* ================================================================ claims

\* ---------------------------------------------------------------------- C1
\* C1: when rule 3-A removes a matched pair, every request suspended on a removed
\* cell is resumed (and then fails 1-A): no request stays queued on a cell that
\* has become Empty.
C1_NoWaiterOnEmptyCell ==
  \A p \in Pos : ~grid[p].occ => waitQueues[p] = <<>>

\* ---------------------------------------------------------------------- C2
\* The Deferreds resolved by the step: what the step appended to resumeQ.
NewlyWoken ==
  IF Len(resumeQ') >= Len(resumeQ)
  THEN SubSeq(resumeQ', Len(resumeQ) + 1, Len(resumeQ'))
  ELSE <<>>

WokenOn(p) ==
  LET IsP(w) == w.pos = p IN SelectSeq(NewlyWoken, IsP)

Drop(q, k) == SubSeq(q, k + 1, Len(q))

\* C2: per cell, waiters are served in strict FIFO order: each wake on a cell
\* resolves the waiter at the head of its queue (the i-th wake of a step takes
\* the i-th waiter), a new waiter is put at the back, nothing else touches the
\* queue, and the resolved waiters resume in the order they were resolved.
C2_FifoStep ==
  /\ \A p \in Pos :
       LET q == waitQueues[p]
           k == Len(WokenOn(p))
       IN /\ k <= Len(q)
          /\ \A i \in 1 .. k : WokenOn(p)[i].by = q[i]
          /\ \/ waitQueues'[p] = Drop(q, k)
             \/ \E by \in Players : waitQueues'[p] = Append(Drop(q, k), by)
  /\ IF Len(resumeQ') >= Len(resumeQ)
     THEN SubSeq(resumeQ', 1, Len(resumeQ)) = resumeQ
     ELSE resumeQ' = Tail(resumeQ)

\* C2: every step serves every wait queue first in, first out.
C2_Fifo == [][C2_FifoStep]_vars

\* Two different players were queued on a card that is still there, and the one
\* that enqueued first has been woken while the other is still queued.
C2_Witness ==
  \E p \in Pos :
    /\ grid[p].occ
    /\ waitQueues[p] # <<>>
    /\ \E i \in 1 .. Len(resumeQ) :
         resumeQ[i].pos = p /\ resumeQ[i].by # Head(waitQueues[p])

\* ---------------------------------------------------------------------- C3
\* q2 is q with some waiters taken from its head and none added.
IsSuffix(q2, q) == \E k \in 0 .. Len(q) : q2 = Drop(q, k)

WaitsFor(p, q) ==
  /\ p # q
  /\ \E c \in Pos :
       /\ grid[c].occ /\ grid[c].controller = q
       /\ \E i \in 1 .. Len(waitQueues[c]) : waitQueues[c][i] = p

\* C4: no wait-for cycle between players is reachable (of length two or three).
C4_NoWaitCycle ==
  /\ ~ \E p, q \in Players : WaitsFor(p, q) /\ WaitsFor(q, p)
  /\ ~ \E p, q, r \in Players : WaitsFor(p, q) /\ WaitsFor(q, r) /\ WaitsFor(r, p)

\* ---------------------------------------------------------------------- C5
\* C5: for every player p with a recorded first selection q, the cell at q is
\* Occupied and controlled by p or by nobody; if by nobody, p's pending outcome is
\* a Mismatched that references q.
C5_FirstSelectionHeld ==
  \A p \in Players :
    firstSelection[p] # NoPos =>
      LET q == firstSelection[p] IN
      /\ grid[q].occ
      /\ grid[q].controller \in {p, NoPlayer}
      /\ grid[q].controller = NoPlayer =>
           /\ pending[p].kind = "mismatched"
           /\ q \in {pending[p].first, pending[p].second}

\* ---------------------------------------------------------------------- C6
\* C6: every Occupied cell that is face down has no controller.
C6_FaceDownUncontrolled ==
  \A p \in Pos : (grid[p].occ /\ ~grid[p].faceUp) => grid[p].controller = NoPlayer

\* A card is face down (and uncontrolled) while a card of a mismatched pair is
\* face up in another player's control: the cleanup of that pair must not turn it down.
C6_Witness ==
  \E p, q \in Pos, pl \in Players :
    /\ grid[p].occ /\ ~grid[p].faceUp
    /\ pending[pl].kind = "mismatched" /\ q \in {pending[pl].first, pending[pl].second}
    /\ grid[q].occ /\ grid[q].faceUp /\ grid[q].controller \notin {NoPlayer, pl}

\* ---------------------------------------------------------------------- C7
\* The step is a first flip by player by at pos (either variant).
FirstFlipBy(by, pos) == FlipFirst(by, pos) \/ FlipFirstAsync(by, pos)

\* C7: rule 3-A: if p's pending outcome is Matched{a, b}, p's next first flip, at
\* any position, makes both a and b Empty and clears p's pending outcome.
C7_Step ==
  \A by \in Players, pos \in InputPos :
    (pending[by].kind = "matched" /\ FirstFlipBy(by, pos)) =>
      /\ ~grid'[pending[by].first].occ
      /\ ~grid'[pending[by].second].occ
      /\ pending'[by] = NoOutcome

\* C7: every first flip of a player with a Matched outcome pending applies rule 3-A.
C7_Rule3A == [][C7_Step]_vars

\* A pair has been removed and nobody has a pending outcome left.
C7_Witness ==
  \E a, c \in Pos :
    /\ a # c /\ ~grid[a].occ /\ ~grid[c].occ
    /\ \A p \in Players : pending[p] = NoOutcome

\* ---------------------------------------------------------------------- C8
\* The card at q is there, face up and uncontrolled.
FreeFaceUp(q) == grid[q].occ /\ grid[q].faceUp /\ grid[q].controller = NoPlayer

\* C8: rule 3-B: if p's pending outcome is Mismatched{a, b}, p's next first flip
\* turns face down exactly those of a and b that are Occupied, face up and
\* uncontrolled at that moment; every other cell (a card of the pair that another
\* player controls, or that was removed, included) is as it was. Only the cell the
\* new flip targets can differ: if it was one of the cards turned down, the flip
\* turns it up again for p.
C8_Step ==
  \A by \in Players, pos \in InputPos :
    (pending[by].kind = "mismatched" /\ FirstFlipBy(by, pos)) =>
      LET pair == {pending[by].first, pending[by].second} IN
      /\ \A q \in Pos \ {pos} :
           grid'[q] = IF q \in pair /\ FreeFaceUp(q)
                      THEN [grid[q] EXCEPT !.faceUp = FALSE]
                      ELSE grid[q]
      /\ (pos \in pair /\ FreeFaceUp(pos)) => grid'[pos] = Slot(grid[pos].label, TRUE, by)
      /\ pending'[by] = NoOutcome

\* C8: every first flip of a player with a Mismatched outcome pending applies rule 3-B.
C8_Rule3B == [][C8_Step]_vars

\* A player's mismatched pair of which one card is still free and face up and the
\* other has since been taken by another player.
C8_Witness ==
  \E p \in Players :
    /\ pending[p].kind = "mismatched"
    /\ FreeFaceUp(pending[p].second)
    /\ grid[pending[p].first].occ
    /\ grid[pending[p].first].controller \notin {NoPlayer, p}

\* ---------------------------------------------------------------------- C9
\* flipSecond(pos, by) gets as far as comparing the two labels.
ReachesComparison(by, pos) ==
  /\ firstSelection[by] # NoPos
  /\ within(pos) /\ grid[pos].occ
  /\ ~(grid[pos].faceUp /\ grid[pos].controller # NoPlayer)
  /\ grid[firstSelection[by]].occ

Held(p, q) == grid[q].occ /\ grid[q].faceUp /\ grid[q].controller = p

\* Rule 2-D, the step: when flipSecond(pos, p) reaches the comparison and the
\* labels are equal, afterwards both cards are face up and controlled by p, p's
\* pending outcome is Matched{first, pos} and p's first selection is cleared.
C9_Step ==
  \A by \in Players, pos \in InputPos :
    LET first == firstSelection[by] IN
    (ReachesComparison(by, pos) /\ grid[first].label = grid[pos].label
       /\ FlipSecond(by, pos)) =>
      /\ grid'[first] = Slot(grid[first].label, TRUE, by)
      /\ grid'[pos] = Slot(grid[pos].label, TRUE, by)
      /\ pending'[by] = Outcome("matched", first, pos)
      /\ firstSelection'[by] = NoPos

\* Rule 2-D, afterwards: both cards stay face up and controlled by p for as long as
\* the Matched outcome is pending, that is until p's next call of flipFirst or
\* flipFirstAsync (which clears it in settleBeforeNewFirstMove).
C9_Stays ==
  \A p \in Players :
    pending[p].kind = "matched" => Held(p, pending[p].first) /\ Held(p, pending[p].second)

\* C9: rule 2-D: a flipSecond that finds equal labels gives p both cards, records
\* Matched{first, pos} and clears p's first selection, and both cards stay face up
\* and controlled by p until p's next first flip.
C9_Rule2D == [][C9_Step]_vars /\ []C9_Stays

\* A matched pair is pending: two different cards held by p, no first selection,
\* and another player is waiting for one of them.
C9_Witness ==
  \E p \in Players :
    /\ pending[p].kind = "matched"
    /\ pending[p].first # pending[p].second
    /\ firstSelection[p] = NoPos
    /\ waitQueues[pending[p].first] # <<>>

\* --------------------------------------------------------------------- C10
\* One waiter, the head of the queue of c, is woken on c if anybody waits there.
WakesOne(c) ==
  IF waitQueues[c] = <<>>
  THEN waitQueues'[c] = <<>> /\ WokenOn(c) = <<>>
  ELSE /\ waitQueues'[c] = Tail(waitQueues[c])
       /\ WokenOn(c) = <<[by |-> Head(waitQueues[c]), pos |-> c]>>

\* C10: rule 2-E: when flipSecond(pos, p) reaches the comparison and the labels
\* differ, afterwards both cards are face up with no controller, p's pending outcome
\* is Mismatched{first, pos}, p's first selection is cleared, and one waiter is
\* woken on each of the two cells (and none on any other cell).
C10_Step ==
  \A by \in Players, pos \in InputPos :
    LET first == firstSelection[by] IN
    (ReachesComparison(by, pos) /\ grid[first].label # grid[pos].label
       /\ FlipSecond(by, pos)) =>
      /\ grid'[first] = Slot(grid[first].label, TRUE, NoPlayer)
      /\ grid'[pos] = Slot(grid[pos].label, TRUE, NoPlayer)
      /\ pending'[by] = Outcome("mismatched", first, pos)
      /\ firstSelection'[by] = NoPos
      /\ WakesOne(first) /\ WakesOne(pos)
      /\ \A c \in Pos \ {first, pos} : waitQueues'[c] = waitQueues[c]
      /\ Len(NewlyWoken) = Len(WokenOn(first)) + Len(WokenOn(pos))

\* C10: every flipSecond that finds different labels applies rule 2-E.
C10_Rule2E == [][C10_Step]_vars

\* After a mismatch: both cards face up and free, the first waiter of a card woken
\* and not yet resumed, a later waiter of that card still queued.
C10_Witness ==
  \E p \in Players :
    /\ pending[p].kind = "mismatched"
    /\ FreeFaceUp(pending[p].first) /\ FreeFaceUp(pending[p].second)
    /\ firstSelection[p] = NoPos
    /\ \E i \in 1 .. Len(resumeQ) : resumeQ[i].pos = pending[p].first
    /\ waitQueues[pending[p].first] # <<>>

\* --------------------------------------------------------------------- C11
\* flipSecond(pos, by) ends in rule 2-A (Empty target) or 2-B (face-up target
\* that somebody controls).
AbortsSecond(by, pos) ==
  /\ firstSelection[by] # NoPos
  /\ \/ ~grid[pos].occ
     \/ grid[pos].faceUp /\ grid[pos].controller # NoPlayer

\* What rules 2-A/2-B do apart from the target cell: the call fails, the first card
\* is left face up with no controller, the first selection is cleared, one waiter
\* of the first card is woken, and the pending outcome is as it was.
C11_Release(by, pos) ==
  LET first == firstSelection[by] IN
  /\ flipSecondAsync(Board, pos, by).res = IF grid[pos].occ THEN "2-B" ELSE "2-A"
  /\ grid'[first] = Slot(grid[first].label, TRUE, NoPlayer)
  /\ firstSelection'[by] = NoPos
  /\ WakesOne(first)
  /\ \A c \in Pos \ {first} : waitQueues'[c] = waitQueues[c]
  /\ Len(NewlyWoken) = Len(WokenOn(first))
  /\ pending' = pending

C11_StepOriginal ==
  \A by \in Players, pos \in Pos :
    (AbortsSecond(by, pos) /\ FlipSecond(by, pos)) =>
      /\ C11_Release(by, pos)
      /\ grid'[pos] = grid[pos]

C11_StepAmended ==
  \A by \in Players, pos \in Pos :
    (AbortsSecond(by, pos) /\ FlipSecond(by, pos)) =>
      /\ C11_Release(by, pos)
      /\ \A c \in Pos \ {firstSelection[by]} : grid'[c] = grid[c]

Available(b, pos, by) ==
  /\ within(pos) /\ b.grid[pos].occ
  /\ ~b.grid[pos].faceUp \/ b.grid[pos].controller \in {NoPlayer, by}

\* Rules 1-B/1-C on a first flip whose target is available once the caller's
\* cleanup is done: the call succeeds at once, the card is face up and the
\* caller's, the first selection is pos, and apart from the cleanup no other cell
\* and no wait queue has changed.
C12_Step ==
  \A by \in Players, pos \in Pos :
    LET b1 == settleBeforeNewFirstMove(Board, by) IN
    (Available(b1, pos, by) /\ FirstFlipBy(by, pos)) =>
      /\ flipFirst(Board, pos, by).res = "ok"
      /\ flipFirstAsync(Board, pos, by).res = "ok"
      /\ grid'[pos] = Slot(b1.grid[pos].label, TRUE, by)
      /\ firstSelection'[by] = pos
      /\ \A c \in Pos \ {pos} : grid'[c] = b1.grid[c]
      /\ waitQueues' = b1.waitQueues /\ resumeQ' = b1.resumeQ

\* C12: rules 1-B/1-C: a first flip by p on a face-down card, or on a face-up
\* card whose controller is nobody or p, succeeds without suspending; afterwards
\* the card is face up and controlled by p, firstSelection[p] is that position,
\* and the flip itself changed no other cell.
C12_Rule1BC == [][C12_Step]_vars

\* A card taken by 1-C: it is the first selection of p, and it belongs to the
\* mismatched pair of another player, who left it face up and free.
C12_Witness ==
  \E p, q \in Players :
    /\ p # q /\ firstSelection[p] # NoPos
    /\ Held(p, firstSelection[p])
    /\ pending[q].kind = "mismatched"
    /\ firstSelection[p] \in {pending[q].first, pending[q].second}

\* --------------------------------------------------------------------- C13
\* The step changed no cell, no wait queue and not the first selection of by.
C13_Untouched(by) ==
  /\ grid' = grid
  /\ waitQueues' = waitQueues /\ resumeQ' = resumeQ
  /\ firstSelection'[by] = firstSelection[by]

\* A first flip at a position outside the grid fails as out of bounds and
\* touches nothing.
C13_FirstStep ==
  \A by \in Players, pos \in OutOfBoundsPos :
    FirstFlipBy(by, pos) =>
      /\ flipFirst(Board, pos, by).res = "OOB"
      /\ flipFirstAsync(Board, pos, by).res = "OOB"
      /\ C13_Untouched(by)

\* A second flip (by a player who has a first card) at a position outside the
\* grid fails as out of bounds and touches nothing.
C13_SecondStep ==
  \A by \in Players, pos \in OutOfBoundsPos :
    (firstSelection[by] # NoPos /\ FlipSecond(by, pos)) =>
      /\ flipSecondAsync(Board, pos, by).res = "OOB"
      /\ C13_Untouched(by)

C13_First == [][C13_FirstStep]_vars

C13_Second == [][C13_SecondStep]_vars

\* C13: flipFirst and flipSecond called with an out-of-bounds position fail with
\* the OutOfBounds kind (not EmptySpace or EmptyTarget), and the failed call
\* changes no cell, no wait queue and not the caller's first selection.
C13_OutOfBounds == [][C13_FirstStep /\ C13_SecondStep]_vars

\* --------------------------------------------------------------------- C14
\* C14: flipSecond by a player with no recorded first selection fails with NoFirst
\* and leaves the whole board state (cells, first selections, pending outcomes,
\* wait queues, resolved waiters, watchers) unchanged, whatever the position.
C14_NoFirst ==
  \A by \in Players, pos \in InputPos :
    firstSelection[by] = NoPos =>
      flipSecondAsync(Board, pos, by) = Ret(Board, "NoFirst")

\* A player without a first selection has an outcome pending, while another
\* player holds a first card and a watch is pending: there is state a stray
\* flipSecond could disturb.
C14_Witness ==
  \E p, q \in Players :
    /\ firstSelection[p] = NoPos /\ pending[p].kind = "mismatched"
    /\ firstSelection[q] # NoPos /\ Held(q, firstSelection[q])
    /\ watchers # <<>>

\* --------------------------------------------------------------------- C15
\* A step changed what a watcher can see of the cards: some cell was removed,
\* turned face up or turned face down.
FaceDiff(g, h) ==
  \E q \in Pos : g[q].occ # h[q].occ \/ g[q].faceUp # h[q].faceUp

FaceChange == FaceDiff(grid, grid')

\* The watch calls resolved and not yet returned, oldest first.
ResolvedWatches(q) == SelectSeq(q, LAMBDA w : w.pos = NoPos)

\* Every watch pending before the step is resolved by it, in order of
\* registration, and none is pending after it.
AllWatchesResolved ==
  /\ watchers' = <<>>
  /\ ResolvedWatches(resumeQ') =
       ResolvedWatches(resumeQ) \o [i \in 1 .. Len(watchers) |-> WatchEntry(watchers[i])]

\* C15: every step that turns a card face up (1-B, 2-C), removes a pair (3-A) or
\* turns a card face down (3-B) resolves every watch that was pending. It holds
\* under SpecWatch; under SpecAsyncWatch a flipSecond that throws at line 203 has
\* turned its card face up (line 200) and never reaches notifyChange (line 217).
C15_Step == (watchers # <<>> /\ FaceChange) => AllWatchesResolved

C15_VisibleChangeResolves == [][C15_Step]_vars

\* --------------------------------------------------------------------- C16
\* Some cell that keeps its card carries another label.
LabelDiff(g, h) == \E q \in Pos : g[q].occ /\ h[q].occ /\ g[q].label # h[q].label

\* The step is a call that made a watcher-visible change: a first flip whose
\* cleanup removed or turned down a card (3-A, 3-B) or that turned its card up
\* (1-B, at once or when it resumes), a second flip that turned its card up
\* (2-C), or a map that wrote another label.
MadeVisibleChange ==
  \/ \E by \in Callers, pos \in InputPos :
       /\ FirstFlipBy(by, pos)
       /\ LET settled == settleBeforeNewFirstMove(Board, by).grid
          IN FaceDiff(grid, settled) \/ FaceDiff(settled, grid')
  \/ Resume /\ FaceChange
  \/ \E by \in Callers, pos \in InputPos : FlipSecond(by, pos) /\ FaceChange
  \/ \E i \in 1 .. Len(maps) : MapFinish(i) /\ LabelDiff(grid, grid')

\* C16: a step that resolves a pending watch made a watcher-visible change: a
\* 1-C control transfer, a 2-E release that turned no card, a map that leaves
\* every label as it was, and a failed call resolve none.
C16_Step ==
  (watchers # <<>> /\ Len(watchers') < Len(watchers)) => MadeVisibleChange

C16_OnlyChangesResolve == [][C16_Step]_vars

\* A watch is pending while an identity mapCards is in progress, a face-up card
\* nobody controls can be taken by 1-C, and a player holding a first card can
\* flip a face-up uncontrolled card of another label as second card (2-E that
\* turns no card).
C16_Witness ==
  /\ watchers # <<>>
  /\ \E i \in 1 .. Len(maps) : maps[i].f = "same" /\ maps[i].variant = "mapCards"
  /\ \E by \in Callers, pos \in Pos :
       pending[by].kind = "null" /\ FreeFaceUp(pos)
       /\ flipFirst(Board, pos, by).b.watchers = watchers
  /\ \E by \in Callers, pos \in Pos :
       /\ firstSelection[by] # NoPos /\ Held(by, firstSelection[by])
       /\ FreeFaceUp(pos) /\ grid[pos].label # grid[firstSelection[by]].label
       /\ flipSecond(Board, pos, by).b.pending[by].kind = "mismatched"

\* --------------------------------------------------------------------- C17
\* No watch is resolved and none is added: the pending and the resolved watches
\* are what they were.
WatchesKept ==
  watchers' = watchers /\ ResolvedWatches(resumeQ') = ResolvedWatches(resumeQ)

\* The step is a call that fails. A failing call records no first selection, no
\* outcome and no label, which is tested first.
FirstFlipFails(by, pos) ==
  /\ firstSelection' = firstSelection
  /\ flipFirst(Board, pos, by).res # "ok"
  /\ FlipFirst(by, pos)

SecondFlipFails(by, pos) ==
  /\ pending' = pending
  /\ flipSecond(Board, pos, by).res # "ok"
  /\ FlipSecond(by, pos)

MapFails(i) ==
  /\ grid' = grid
  /\ mapFinish(Board, i).res # "ok"
  /\ MapFinish(i)

\* The statement as the specification has it: no failing call resolves a watch.
C17_StepOriginal ==
  \/ watchers = <<>>
  \/ WatchesKept
  \/ /\ \A by \in Callers, pos \in InputPos : ~FirstFlipFails(by, pos)
     /\ \A by \in Callers, pos \in InputPos : ~SecondFlipFails(by, pos)
     /\ \A i \in 1 .. Len(maps) : ~MapFails(i)

C17_StepAmended ==
  \/ watchers = <<>>
  \/ WatchesKept /\ grid' = grid
  \/ /\ \A by \in Callers, pos \in InputPos :
          FirstFlipFails(by, pos) =>
            IF FaceDiff(grid, settleBeforeNewFirstMove(Board, by).grid)
            THEN AllWatchesResolved
            ELSE WatchesKept
     /\ \A by \in Callers, pos \in InputPos : SecondFlipFails(by, pos) => WatchesKept
     /\ \A i \in 1 .. Len(maps) : MapFails(i) => WatchesKept

C18_Step ==
  /\ (watchers # <<>> /\ Len(watchers') < Len(watchers)) => AllWatchesResolved
  /\ \A by \in Callers :
       Watch(by) => watchers' = Append(watchers, by) /\ resumeQ' = resumeQ

C18_Broadcast == [][C18_Step]_vars

\* Two watches of different players were resolved by one change and have not
\* returned yet, and a watch registered after that change is pending.
C18_Witness ==
  /\ watchers # <<>>
  /\ \E p, q \in Callers :
       p # q /\ ResolvedWatches(resumeQ) = <<WatchEntry(p), WatchEntry(q)>>

\* --------------------------------------------------------------------- C19
\* C19: the snapshot a watch returns is the board as the change that resolved the
\* watch left it: from the moment a watch is resolved until it returns, the
\* snapshot it is going to return (snapshot(forPlayer), computed when the call
\* resumes) stays what it was.
C19_Step ==
  \A i \in 1 .. Len(resumeQ) :
    resumeQ[i].pos = NoPos =>
      snapshot(Board', resumeQ[i].by) = snapshot(Board, resumeQ[i].by)

C19_SnapshotAtEvent == [][C19_Step]_vars

\* --------------------------------------------------------------------- C20
\* C20: when a call of Board.map returns after writing another label into at
\* least one cell, every watch that was pending is resolved by that step.
C20_Step ==
  \A i \in 1 .. Len(maps) :
    (watchers # <<>> /\ maps[i].variant = "map"
       /\ MapFinish(i) /\ LabelDiff(grid, grid')) => AllWatchesResolved

C20_MapResolvesWatches == [][C20_Step]_vars

\* --------------------------------------------------------------------- C21
\* The line of cell q in the snapshot for player p.
LineAt(b, p, q) == snapshot(b, p)[Index(q) + 2]

ShowsLabel(line) == Len(line) = 2

\* In every snapshot of board b, two cells of one group of the map call m that
\* both show a label show the same label.
NeverSplit(b, m) ==
  \A p \in Players :
    LET lines == snapshot(b, p)
        shown(q) == lines[Index(q) + 2]
    IN \A orig \in DOMAIN m.byValue : \A q1, q2 \in m.byValue[orig] :
         (ShowsLabel(shown(q1)) /\ ShowsLabel(shown(q2))) => shown(q1)[2] = shown(q2)[2]

\* While a map is in progress no snapshot splits one of its groups.
C21_InProgress == \A i \in 1 .. Len(maps) : NeverSplit(Board, maps[i])

\* The step in which a map returns rewrites each of its groups as a whole.
C21_Step ==
  \A i \in 1 .. Len(maps) : (maps' # maps /\ MapFinish(i)) => NeverSplit(Board', maps[i])

\* C21: under any interleaving of a map with flips and snapshots, no snapshot
\* shows two cells that carried the same label when the map started with
\* different labels: neither while the map is in progress nor when it returns.
C21_AtomicPerLabel == []C21_InProgress /\ [][C21_Step]_vars

\* Both cards of a pair are face up and show the new label C, written by a map
\* that has returned, while a further map is in progress.
C21_Witness ==
  /\ maps # <<>>
  /\ \E q1, q2 \in Pos :
       /\ q1 # q2
       /\ LineAt(Board, Flipper, q1) \in {<<"my", "C">>, <<"up", "C">>}
       /\ LineAt(Board, Flipper, q2) \in {<<"my", "C">>, <<"up", "C">>}
       /\ \E i \in 1 .. Len(maps) : \E orig \in DOMAIN maps[i].byValue :
            {q1, q2} \subseteq maps[i].byValue[orig]

\* --------------------------------------------------------------------- C22
\* Map calls i < j have both read the positions of the cards, neither has
\* committed (the labels are still the ones both read), and every result of
\* both transformers is a valid card.
C22_Concurrent(i, j) ==
  /\ i < j
  /\ maps[i].byValue = ByValue(Board)
  /\ maps[j].byValue = ByValue(Board)
  /\ \A x \in DOMAIN ByValue(Board) :
       validCard(transform(maps[i].f, x)) /\ validCard(transform(maps[j].f, x))

\* The board after call i and then call j of the concurrent pair i < j returned.
C22_AfterBoth(i, j, iFirst) ==
  IF iFirst THEN mapFinish(mapFinish(Board, i).b, j - 1).b
  ELSE mapFinish(mapFinish(Board, j).b, i).b

\* C22: when two map calls run concurrently (both read the positions before
\* either commits), after both have completed, in either order, the label of
\* every card is f2(f1(x)) or f1(f2(x)) for its original label x.
C22_ComposedInSomeOrder ==
  \A i, j \in 1 .. Len(maps) :
    C22_Concurrent(i, j) =>
      \A iFirst \in BOOLEAN : \A q \in Pos :
        LET x == Board.grid[q].label
            f1 == maps[i].f
            f2 == maps[j].f
        IN Board.grid[q].occ =>
             C22_AfterBoth(i, j, iFirst).grid[q].label
               \in {transform(f2, transform(f1, x)), transform(f1, transform(f2, x))}

\* --------------------------------------------------------------------- C23
InvalidLabel == "invalid transformed card"

\* Some result of the transformer of map call m is empty or contains whitespace.
HasInvalidResult(m) == \E orig \in DOMAIN m.byValue : ~validCard(transform(m.f, orig))

C23_Step ==
  \A i \in 1 .. Len(maps) :
    (maps' # maps /\ HasInvalidResult(maps[i]) /\ MapFinish(i)) =>
       /\ mapFinish(Board, i).res = InvalidLabel
       /\ \A q \in Pos : grid'[q].label = grid[q].label

\* C23: a map with an empty or whitespace-containing transform result fails
\* with the invalid-label error and leaves every label as it was, also the
\* labels of the groups whose results were valid.
C23_InvalidMapChangesNothing == [][C23_Step]_vars

\* A map is in progress whose transformer gives an invalid card for one value
\* and a valid, different card for the value of a card still on the board.
C23_Witness ==
  \E i \in 1 .. Len(maps) :
    /\ HasInvalidResult(maps[i])
    /\ \E orig \in DOMAIN maps[i].byValue :
         /\ validCard(transform(maps[i].f, orig))
         /\ transform(maps[i].f, orig) # orig
         /\ \E q \in maps[i].byValue[orig] : grid[q].occ /\ grid[q].label = orig

\* --------------------------------------------------------------------- C24
\* A step of a map call: its start (positions read, transformer called) or its
\* return (validation and commit).
MapStep == maps' # maps

C24_Step ==
  MapStep =>
    /\ \A q \in Pos : grid'[q] = [grid[q] EXCEPT !.label = grid'[q].label]
    /\ firstSelection' = firstSelection
    /\ pending' = pending
    /\ waitQueues' = waitQueues

\* C24: map changes labels only. No step of a map call changes the face or the
\* controller of a cell, removes or creates a card, or changes a first
\* selection, a pending outcome or a wait queue.
C24_MapChangesLabelsOnly == [][C24_Step]_vars

\* A renaming map is in progress while a card it will rewrite is face up and
\* controlled by a player who holds it as first selection, and some player has
\* a pending outcome.
C24_Witness ==
  /\ \E i \in 1 .. Len(maps) :
       /\ ~HasInvalidResult(maps[i])
       /\ \E orig \in DOMAIN maps[i].byValue : \E q \in maps[i].byValue[orig] :
            /\ transform(maps[i].f, orig) # orig
            /\ grid[q].occ /\ grid[q].faceUp /\ grid[q].label = orig
            /\ grid[q].controller \in Players
            /\ firstSelection[grid[q].controller] = q
  /\ \E p \in Players : pending[p] # NoOutcome

\* --------------------------------------------------------------------- C25
C25_Step ==
  \A i \in 1 .. Len(maps) :
    (maps' # maps /\ maps[i].variant = "map" /\ ~HasInvalidResult(maps[i]) /\ MapFinish(i)) =>
       \A orig \in DOMAIN maps[i].byValue : \A q \in maps[i].byValue[orig] :
         grid'[q].occ => grid'[q].label = transform(maps[i].f, orig)

\* C25: when a call of Board.map completes successfully, every cell that is
\* still occupied carries the transform of the label it had when the call
\* started, so the cells of one group carry identical labels.
C25_GroupsRewritten == [][C25_Step]_vars

\* A renaming Board.map is in progress; of the pair it will rewrite one card is
\* face up and the other face down.
C25_Witness ==
  \E i \in 1 .. Len(maps) :
    /\ maps[i].variant = "map"
    /\ ~HasInvalidResult(maps[i])
    /\ \E orig \in DOMAIN maps[i].byValue : \E q1, q2 \in maps[i].byValue[orig] :
         /\ transform(maps[i].f, orig) # orig
         /\ grid[q1].occ /\ grid[q1].faceUp
         /\ grid[q2].occ /\ ~grid[q2].faceUp

\* --------------------------------------------------------------------- C26
\* The labels of the cards on the board.
LabelsOnBoard == {grid[q].label : q \in {r \in Pos : grid[r].occ}}

C26_Step ==
  Len(maps') = Len(maps) + 1 =>
    LET calls == maps'[Len(maps')].calls
    IN /\ \A k1, k2 \in DOMAIN calls : k1 # k2 => calls[k1] # calls[k2]
       /\ {calls[k] : k \in DOMAIN calls} = LabelsOnBoard

\* C26: a map call invokes transform once for each distinct label on the board
\* at its start, however many cells carry it, and for no label that only
\* removed cells carried.
C26_OncePerLabel == [][C26_Step]_vars

\* Two map calls are in progress: one called transform once for a label that two
\* cards carried, the other started after that pair was removed and did not
\* call transform for its label.
C26_Witness ==
  \E i, j \in 1 .. Len(maps) :
    /\ \E k \in DOMAIN maps[i].calls : Cardinality(maps[i].byValue[maps[i].calls[k]]) = 2
    /\ Len(maps[j].calls) < Len(maps[i].calls)
    /\ \E q \in Pos : ~grid[q].occ

\* --------------------------------------------------------------------- C27
\* The board as it would be with no map call in progress.
WithoutMaps(b) == [b EXCEPT !.maps = <<>>]

\* Result r of a call made while maps are in progress is the result r0 of the
\* same call on the board without them.
SameAsWithoutMaps(r, r0) == r.res = r0.res /\ WithoutMaps(r.b) = r0.b

\* While a map is between reading the positions and its commit, every flip and
\* every snapshot gives what it gives with no map in progress.
C27_NotBlocked ==
  maps # <<>> =>
    /\ \A by \in Callers, pos \in InputPos :
         /\ SameAsWithoutMaps(flipFirst(Board, pos, by), flipFirst(WithoutMaps(Board), pos, by))
         /\ SameAsWithoutMaps(flipSecond(Board, pos, by), flipSecond(WithoutMaps(Board), pos, by))
    /\ \A p \in Players : SameAsWithoutMaps(look(Board, p), look(WithoutMaps(Board), p))

\* The commit of a map leaves every face and every controller as the flips
\* made them.
C27_Kept ==
  \A i \in 1 .. Len(maps) :
    (maps' # maps /\ MapFinish(i)) =>
       \A q \in Pos : /\ grid'[q].faceUp = grid[q].faceUp
                       /\ grid'[q].controller = grid[q].controller

\* C27: map does not block flips. While a map waits for its transform results
\* flipFirst, flipSecond and snapshot execute normally, and the face and control
\* changes they make are still in place after the map commits.
C27_MapDoesNotBlock == []C27_NotBlocked /\ [][C27_Kept]_vars

\* A renaming map is in progress, and since it read the positions a player has
\* turned up and taken control of a card it will rewrite and completed a pair.
C27_Witness ==
  \E i \in 1 .. Len(maps) :
    /\ transform(maps[i].f, "A") = "C"
    /\ \E by \in Callers : pending[by] # NoOutcome
    /\ \E q \in Pos : /\ grid[q].occ /\ grid[q].faceUp /\ grid[q].label = "A"
                        /\ grid[q].controller \in Callers
                        /\ \E orig \in DOMAIN maps[i].byValue : q \in maps[i].byValue[orig]

\* --------------------------------------------------------------------- C28
\* Map call m recorded a position whose card has been removed since.
RecordedRemoved(m) ==
  \E orig \in DOMAIN m.byValue : \E q \in m.byValue[orig] : ~grid[q].occ

C28_Step ==
  /\ \A q \in Pos : ~grid[q].occ => grid'[q] = grid[q]
  /\ \A i \in 1 .. Len(maps) :
       (maps' # maps /\ RecordedRemoved(maps[i]) /\ ~HasInvalidResult(maps[i]) /\ MapFinish(i))
         => mapFinish(Board, i).res = "ok"

\* C28: removal is permanent and map tolerates it. An empty cell stays empty
\* in every step, and a map that recorded a position before its card was
\* removed completes without error and leaves the cell empty.
C28_RemovalPermanent == [][C28_Step]_vars

\* A map with valid results is in progress that recorded the position of a
\* card that has been removed since.
C28_Witness ==
  \E i \in 1 .. Len(maps) : RecordedRemoved(maps[i]) /\ ~HasInvalidResult(maps[i])

\* --------------------------------------------------------------------- C29
\* The line of the cell in row r and column c in the text for player p, the
\* cells being counted row by row after the line with the size.
C29_Line(p, r, c) == render(SnapRows, SnapCols, grid, p)[1 + r * SnapCols + c + 1]

\* C29: snapshot(forPlayer) renders each cell, in row-major order, as none if
\* empty, down if face down, my L if face up and controlled by forPlayer, and
\* up L if face up and controlled by another player or by nobody; so a face-up
\* card controlled by p is my L for p and up L for every other player.
C29_Rendering ==
  \A p \in Players :
    /\ Len(render(SnapRows, SnapCols, grid, p)) = 1 + SnapRows * SnapCols
    /\ render(SnapRows, SnapCols, grid, p)[1] = <<SnapRows, "x", SnapCols>>
    /\ \A r \in 0 .. SnapRows - 1, c \in 0 .. SnapCols - 1 :
         LET cell == grid[<<r, c>>]
             line == C29_Line(p, r, c)
         IN /\ ~cell.occ => line = <<"none">>
            /\ (cell.occ /\ ~cell.faceUp) => line = <<"down">>
            /\ (cell.occ /\ cell.faceUp /\ cell.controller = p) => line = <<"my", cell.label>>
            /\ (cell.occ /\ cell.faceUp /\ cell.controller # p) => line = <<"up", cell.label>>
            /\ (cell.occ /\ cell.faceUp /\ cell.controller = p) =>
                 \A q \in Players \ {p} : C29_Line(q, r, c) = <<"up", cell.label>>

\* A board whose second row starts with a face-up card controlled by alice,
\* while the second cell of the first row is empty and the board also has a
\* face-down card and a face-up card that nobody controls.
C29_Witness ==
  /\ DOMAIN grid = SnapPos
  /\ grid[<<1, 0>>] = Slot("A", TRUE, "alice")
  /\ grid[<<0, 1>>] = EmptySlot
  /\ \E q \in SnapPos : grid[q] = Slot("A", FALSE, NoPlayer)
  /\ \E q \in SnapPos : grid[q] = Slot("B", TRUE, NoPlayer)

C31_Step ==
  \A q1, q2 \in Pos :
    (/\ grid[q1].occ /\ grid[q2].occ /\ grid'[q1].occ /\ grid'[q2].occ
     /\ grid[q1].label = grid[q2].label)
      => grid'[q1].label = grid'[q2].label

\* C31: pair consistency is never broken. Two cards with equal labels keep
\* equal labels in every step, so in every later state in which both are still
\* on the board, under any interleaving of flips and of overlapping map calls.
C31_PairsStayPairs == [][C31_Step]_vars

\* --------------------------------------------------------------------- C32
\* No step of the simulation is possible: no resolved call is left to resume, and
\* every player is suspended in a flip or has issued all its flips.
SimulationStopped ==
  /\ resumeQ = <<>>
  /\ \A p \in Players : IsSuspended(p) \/ moves[p] = 0

\* C32: the simulation never deadlocks. When it can go no further every flip
\* command has returned, so every player has finished its loop.
C32_NoDeadlock == SimulationStopped => \A p \in Players : ~IsSuspended(p)

\* The simulation has stopped with a flip suspended on a cell whose pair was
\* removed.
C32_StrandedOnEmpty ==
  /\ SimulationStopped
  /\ \E q \in Pos : ~grid[q].occ /\ waitQueues[q] # <<>>

\* --------------------------------------------------------------------- C33
\* C33: a freshly constructed board has a card at every position, face down
\* and uncontrolled, with the label of the board file, and no first selection,
\* pending outcome, waiter or watcher; every snapshot of it shows down at every
\* cell.
C33_FreshBoard ==
  Init =>
    /\ \A q \in Pos :
         /\ grid[q].occ /\ ~grid[q].faceUp /\ grid[q].controller = NoPlayer
         /\ grid[q].label = Cards[q[1] + 1][q[2] + 1]
    /\ \A p \in Players : ~hasFirstSelection(Board, p) /\ pending[p].kind = "null"
    /\ \A q \in Pos : waitQueues[q] = <<>>
    /\ watchers = <<>>
    /\ \A p \in Players :
         /\ Len(snapshot(Board, p)) = 1 + Rows * Cols
         /\ \A k \in 2 .. 1 + Rows * Cols : snapshot(Board, p)[k] = <<"down">>

\* The board as the constructor leaves it, before any call, looked at by a
\* player.
C33_Witness == Init /\ look(Board, "alice").res[1] = <<Rows, "x", Cols>>

\* --------------------------------------------------------------------- C34
\* The step resolves the waiter at the head of the queue of c, if there is one.
WakesHead(c) ==
  waitQueues[c] # <<>> => WokenOn(c) = <<[by |-> Head(waitQueues[c]), pos |-> c]>>

\* Rule 2-E releases both cards, rules 2-A/2-B the first card: one waiter of each
\* released card is woken and none of another cell.
C34_SecondFlip ==
  \A by \in Players, pos \in InputPos :
    (firstSelection[by] # NoPos /\ FlipSecond(by, pos)) =>
      LET first == firstSelection[by]
          released == IF ReachesComparison(by, pos)
                      THEN IF grid[first].label # grid[pos].label THEN {first, pos} ELSE {}
                      ELSE {first}
      IN /\ \A c \in released : WakesHead(c) /\ Len(WokenOn(c)) <= 1
         /\ \A c \in Pos \ released : WokenOn(c) = <<>>

\* Rule 3-B: every card that the cleanup turns face down is released, and one
\* waiter of it is woken.
C34_Cleanup ==
  \A by \in Players, pos \in InputPos :
    (pending[by].kind = "mismatched" /\ FirstFlipBy(by, pos)) =>
      LET turnedDown == {q \in {pending[by].first, pending[by].second} : FreeFaceUp(q)}
      IN /\ \A c \in turnedDown : WakesHead(c) /\ Len(WokenOn(c)) <= 1
         /\ \A c \in Pos \ turnedDown : WokenOn(c) = <<>>

\* C34: each release of a card (each side of a 2-E mismatch, the first card on
\* 2-A/2-B, each card turned face down by 3-B) wakes exactly one waiter, the
\* head of that cell's queue, when the queue is non-empty, and no waiter of any
\* other cell.
C34_OneWakePerRelease == [][C34_SecondFlip /\ C34_Cleanup]_vars

\* The part of C34 that is about flipSecond.
C34_SecondFlipOnly == [][C34_SecondFlip]_vars

\* --------------------------------------------------------------------- C35
\* Card q is face up and controlled by a player other than p.
HeldByOther(p, q) ==
  grid[q].occ /\ grid[q].faceUp /\ grid[q].controller \notin {NoPlayer, p}

\* The call is put at the back of the queue of pos on board b and nothing else
\* of b changes.
C35_QueuedAtBack(b, by, pos) ==
  /\ waitQueues' = [b.waitQueues EXCEPT ![pos] = Append(@, by)]
  /\ grid' = b.grid
  /\ firstSelection' = b.firstSelection
  /\ pending' = b.pending
  /\ resumeQ' = b.resumeQ
  /\ watchers' = b.watchers

\* As stated: the call changes nothing on the board.
C35_CallOriginal ==
  \A by \in Players, pos \in Pos :
    (HeldByOther(by, pos) /\ FlipFirstAsync(by, pos)) => C35_QueuedAtBack(Board, by, pos)

\* The call leaves the board as the caller's own cleanup (rules 3-A/3-B for its
\* previous move) leaves it.
C35_CallAmended ==
  \A by \in Players, pos \in Pos :
    (HeldByOther(by, pos) /\ FlipFirstAsync(by, pos)) =>
      C35_QueuedAtBack(settleBeforeNewFirstMove(Board, by), by, pos)

\* A woken request reads the cell again: 1-A on an empty cell, 1-B on a face-down
\* card, 1-C on a free face-up card, and on a card that another player controls
\* again it goes to the back of the queue as it is then.
C35_Retry ==
  (resumeQ # <<>> /\ Head(resumeQ).pos # NoPos /\ Resume) =>
    LET by == Head(resumeQ).by
        pos == Head(resumeQ).pos
        b == [Board EXCEPT !.resumeQ = Tail(@)]
    IN /\ ~grid[pos].occ => (grid' = grid /\ waitQueues' = waitQueues
                              /\ firstSelection' = firstSelection)
       /\ (grid[pos].occ /\ ~HeldByOther(by, pos)) =>
            /\ grid' = [grid EXCEPT ![pos] = Slot(grid[pos].label, TRUE, by)]
            /\ firstSelection' = [firstSelection EXCEPT ![by] = pos]
            /\ waitQueues' = waitQueues
       /\ HeldByOther(by, pos) => C35_QueuedAtBack(b, by, pos)

C36_FirstSelectionsDistinct ==
  \A p, q \in Players :
    (firstSelection[p] # NoPos /\ firstSelection[p] = firstSelection[q]) => p = q

\* Two players hold first selections, and one of them waits for the card of the
\* other.
C36_Witness ==
  \E p, q \in Players :
    /\ p # q
    /\ firstSelection[p] # NoPos /\ firstSelection[q] # NoPos
    /\ \E i \in 1 .. Len(waitQueues[firstSelection[p]]) : waitQueues[firstSelection[p]][i] = q

\* --------------------------------------------------------------------- C37
\* Player p has a record of the card at q: it is p's first selection or one of
\* the two cards of p's Matched pending outcome.
Recorded(p, q) ==
  \/ firstSelection[p] = q
  \/ pending[p].kind = "matched" /\ q \in {pending[p].first, pending[p].second}

\* C37: every face-up card with controller p is p's recorded first selection or
\* one of the two positions of p's Matched pending outcome, in every reachable
\* state of any interleaving of flip commands, overlapping commands of one
\* player included.
C37_ControlledIsRecorded ==
  \A q \in Pos : \A p \in Players : Held(p, q) => Recorded(p, q)

\* --------------------------------------------------------------------- C38
\* C38: a 3-A cleanup run for player p only removes cards that p controls at
\* that moment: it never removes a card that another player controls or has
\* recorded as first selection.
C38_Step ==
  \A by \in Players, pos \in InputPos :
    (pending[by].kind = "matched" /\ FirstFlipBy(by, pos)) =>
      \A q \in Pos :
        (grid[q].occ /\ ~grid'[q].occ) =>
          /\ Held(by, q)
          /\ \A other \in Players \ {by} : firstSelection[other] # q

C38_RemovesOwnCards == [][C38_Step]_vars

\* The weaker half alone: 3-A removes no card that another player controls or
\* has recorded as first selection.
C38_OthersKept ==
  [][\A by \in Players, pos \in InputPos :
       (pending[by].kind = "matched" /\ FirstFlipBy(by, pos)) =>
         \A q \in Pos : \A other \in Players \ {by} :
           (grid[q].occ /\ ~grid'[q].occ) =>
             ~Held(other, q) /\ firstSelection[other] # q]_vars

WokenPending(q) == \E i \in 1 .. Len(resumeQ) : resumeQ[i].pos = q

\* C40: no waiter is stranded on a free card: whenever the wait queue of an
\* Occupied cell is non-empty, either the cell is face up and controlled by some
\* player, or a waiter already woken for that cell has not yet resumed its retry.
C40_NoWaiterOnFreeCard ==
  \A q \in Pos :
    (grid[q].occ /\ waitQueues[q] # <<>>) =>
      \/ grid[q].faceUp /\ grid[q].controller # NoPlayer
      \/ WokenPending(q)

\* A card with a waiter in its queue is free and face down, and the waiter
\* woken at its release has yet to resume.
C40_Witness ==
  \E q \in Pos :
    /\ grid[q].occ /\ ~grid[q].faceUp /\ grid[q].controller = NoPlayer
    /\ waitQueues[q] # <<>>
    /\ WokenPending(q)

====
